---- MODULE Spec2Model ----
(***************************************************************************)
(* Intelligent Mashup Studio: the recipe builder (creator.py), the         *)
(* rendering engine (engine.py), the revision engine (reviser.py) and the  *)
(* background jobs (tasks.py, app.py) as state machines.                   *)
(*                                                                         *)
(* Conventions.  A Python dict is a sequence in insertion order.  None is  *)
(* the record None.  A call that can raise returns a record whose field    *)
(* kind is "raise".  Times are integers in ticks (TicksPerMs ticks to the  *)
(* millisecond), so that int(t * 1000) truncates.  A mashability score is  *)
(* an integer number of tenths.                                            *)
(***************************************************************************)
EXTENDS Integers, Sequences, FiniteSets, TLC

VARIABLES
    creative_briefs,   \* MashupCreator.__init__: the list of briefs handed in
    mashability,       \* value _calculate_mashability returns for slice pair <<p, s>>
    creator,           \* the MashupCreator object (None, constructed, or the raise)
    recipe,            \* what create_mashup_recipe returned (None before the call)
    fs,                \* the workspace: source audio, stems and mashups on disk
    engine,            \* the AudioEngine object (None, constructed, or the raise)
    rendered,          \* what execute_recipe returned (None before the call)
    environ,           \* os.environ: which provider API keys are set
    jobs,              \* app.py:12  the job-status map, job_id -> entry
    threads,           \* the background thread of each job: its position and locals
    polled             \* what the last GET /api/mashup/status/<job_id> answered

builderVars == <<creative_briefs, mashability, creator, recipe>>

renderVars == <<fs, engine, rendered>>

jobVars == <<environ, jobs, threads, polled>>

vars == <<creative_briefs, mashability, creator, recipe, fs, engine, rendered,
          environ, jobs, threads, polled>>

----------------------------------------------------------------------------
(* Bounds of the model. *)

MaxBriefs == 3      \* longest list of briefs handed to MashupCreator
MaxJobs == 1        \* jobs the endpoints create in one run
MaxBeat == 10       \* largest beat index of a segment
MaxTick == 4        \* largest segment time, in ticks
TicksPerMs == 2     \* resolution of a time: ticks to the millisecond
AudioMs == 400      \* length of every audio file of the workspace, in ms

(* Program constants. *)

GateBeats == 8      \* creator.py:68  abs(...) > 8
InitialScore == -10 \* creator.py:56  best_match score -1, in tenths
RecipeVersion == 2  \* creator.py:97
CrossfadeMs == 100  \* engine.py:80  append(segment_mix, crossfade=100)
StretchToleranceMs == 10 \* engine.py:73

----------------------------------------------------------------------------
(* Python helpers. *)

None == [kind |-> "None"]

Min(a, b) == IF a <= b THEN a ELSE b

Max(a, b) == IF a >= b THEN a ELSE b

Abs(x) == IF x < 0 THEN -x ELSE x

Range(s) == {s[i] : i \in 1..Len(s)}

Front(s) == SubSeq(s, 1, Len(s) - 1)

Last(s) == s[Len(s)]

\* numpy a[:, start:end] on a matrix of `width` columns, 0 <= start, 0 <= end:
\* the number of columns of the slice.
SliceLen(width, start, end) == Max(0, Min(end, width) - Min(start, width))

\* int(t * 1000) for a time t >= 0 held in ticks.
ToMs(t) == t \div TicksPerMs

----------------------------------------------------------------------------
(* creator.py: MashupCreator *)

\* {b['song_info']['title']: b for b in creative_briefs}: the keys, in the
\* order of their first insertion.
RECURSIVE DictKeys(_)
DictKeys(bs) ==
    IF bs = <<>> THEN <<>>
    ELSE LET rest == DictKeys(Front(bs))
             t == Last(bs).title
         IN  IF t \in Range(rest) THEN rest ELSE Append(rest, t)

\* ... and the value under a key: the last brief inserted with that title.
DictGet(bs, t) ==
    LET idx == {i \in 1..Len(bs) : bs[i].title = t}
    IN  IF idx = {} THEN None
        ELSE bs[CHOOSE i \in idx : \A j \in idx : j <= i]

\* tempos = {title: tempo}; max(tempos, key=tempos.get) is the first key, in
\* dict order, of maximal tempo, and min(...) the first of minimal tempo.
SelectRoles(bs) ==
    LET keys == DictKeys(bs)
        tempo(t) == DictGet(bs, t).tempo
        IsMax(i) == \A j \in 1..Len(keys) : tempo(keys[j]) <= tempo(keys[i])
        IsMin(i) == \A j \in 1..Len(keys) : tempo(keys[j]) >= tempo(keys[i])
        first_max == CHOOSE i \in 1..Len(keys) : IsMax(i) /\ \A j \in 1..(i - 1) : ~IsMax(j)
        first_min == CHOOSE i \in 1..Len(keys) : IsMin(i) /\ \A j \in 1..(i - 1) : ~IsMin(j)
    IN  [primary |-> keys[first_max], secondary |-> keys[first_min]]

\* MashupCreator(creative_briefs)
NewMashupCreator(bs) ==
    IF Len(bs) < 2
    THEN [kind |-> "raise", error |-> "ValueError"]
    ELSE LET roles == SelectRoles(bs)
         IN  [kind |-> "MashupCreator",
              briefs |-> bs,
              primary_title |-> roles.primary,
              secondary_title |-> roles.secondary]

BeatLen(seg) == seg.end_beat - seg.start_beat

\* creator.py:68, the duration gate: TRUE when the pair is skipped.
GatedOffByOne(p_len, s_len) == Abs(p_len - s_len) > GateBeats + 1

Gated(p_len, s_len) == Abs(p_len - s_len) > GateBeats

\* _calculate_mashability on slices of the given column counts.  chroma2 has
\* been resized to chroma1's shape by the caller; rhythm and spectral have
\* not: np.dot of the flattened rhythm slices raises ValueError when their
\* sizes differ, and spec1 + spec2 when the shapes do not broadcast.
CalculateMashability(chroma1_w, chroma2_w, rhythm1_w, rhythm2_w, spec1_w, spec2_w, value) ==
    IF rhythm1_w # rhythm2_w
    THEN [kind |-> "raise", error |-> "ValueError"]
    ELSE IF spec1_w # spec2_w /\ spec1_w # 1 /\ spec2_w # 1
    THEN [kind |-> "raise", error |-> "ValueError"]
    ELSE [kind |-> "score", value |-> value]

\* creator.py:82  if score > best_match['score']: the candidate replaces the best.
BetterOrEqual(score, best_score) == score >= best_score

Better(score, best_score) == score > best_score

\* creator.py:65-84, the loop over the secondary segments from segment s on.
RECURSIVE ScanSecondary(_, _, _, _, _, _)
ScanSecondary(pb, sb, mash, p, s, best) ==
    IF s > Len(sb.segments) THEN best
    ELSE
      LET pseg == pb.segments[p]
          sseg == sb.segments[s]
          p_w == SliceLen(pb.nbeats, pseg.start_beat, pseg.end_beat)
          s_w == SliceLen(sb.nbeats, sseg.start_beat, sseg.end_beat)
      IN  IF Gated(BeatLen(pseg), BeatLen(sseg))
          THEN ScanSecondary(pb, sb, mash, p, s + 1, best)
          ELSE IF p_w = 0 \/ s_w = 0
          THEN ScanSecondary(pb, sb, mash, p, s + 1, best)
          ELSE
            LET score == CalculateMashability(p_w, p_w, p_w, s_w, p_w, s_w, mash[<<p, s>>])
            IN  IF score.kind = "raise"
                THEN [best EXCEPT !.raised = TRUE]
                ELSE IF Better(score.value, best.score)
                THEN ScanSecondary(pb, sb, mash, p, s + 1,
                        [seg_name |-> s, score |-> score.value, raised |-> FALSE])
                ELSE ScanSecondary(pb, sb, mash, p, s + 1, best)

\* f"{int(start_time*1000)}-{int(end_time*1000)}" as the tokens of the string.
Dash == [char |-> "-"]

Num(n) == [int |-> n]

IntTokens(n) == IF n < 0 THEN <<Dash, Num(-n)>> ELSE <<Num(n)>>

FormatTimeMsSwapped(start_ms, end_ms) == IntTokens(end_ms) \o <<Dash>> \o IntTokens(start_ms)

FormatTimeMs(start_ms, end_ms) == IntTokens(start_ms) \o <<Dash>> \o IntTokens(end_ms)

\* engine.py:65  [int(t) for t in item['time_ms'].split('-')], unpacked into two
\* names: str.split first ...
RECURSIVE SplitDash(_)
SplitDash(tokens) ==
    IF tokens = <<>> THEN << <<>> >>
    ELSE LET rest == SplitDash(Tail(tokens))
         IN  IF Head(tokens) = Dash THEN << <<>> >> \o rest
             ELSE << <<Head(tokens)>> \o rest[1] >> \o Tail(rest)

\* ... then int() of every part (ValueError on an empty part) and the unpacking
\* (ValueError unless there are exactly two).
ParseTimeMs(tokens) ==
    LET parts == SplitDash(tokens)
    IN  IF \E i \in 1..Len(parts) : Len(parts[i]) # 1
        THEN [kind |-> "raise", error |-> "ValueError"]
        ELSE IF Len(parts) # 2
        THEN [kind |-> "raise", error |-> "ValueError"]
        ELSE [kind |-> "ok", start |-> parts[1][1].int, end |-> parts[2][1].int]

\* creator.py:55-94, the loop over the primary segments from segment p on.
RECURSIVE BuildTimeline(_, _, _, _, _)
BuildTimeline(pb, sb, mash, p, timeline) ==
    IF p > Len(pb.segments) THEN [kind |-> "timeline", items |-> timeline]
    ELSE
      LET best == ScanSecondary(pb, sb, mash, p, 1,
                     [seg_name |-> 0, score |-> InitialScore, raised |-> FALSE])
          pseg == pb.segments[p]
          item == [time_ms |-> FormatTimeMs(ToMs(pseg.start_time), ToMs(pseg.end_time)),
                   description |-> <<p, best.seg_name>>,
                   layers |-> <<[role |-> "instrumental",
                                 details |-> [source |-> pb.title, segment |-> p]],
                                [role |-> "vocals",
                                 details |-> [source |-> sb.title,
                                              segment |-> best.seg_name]]>>]
      IN  IF best.raised THEN [kind |-> "raise", error |-> "ValueError"]
          ELSE IF best.seg_name # 0
          THEN BuildTimeline(pb, sb, mash, p + 1, Append(timeline, item))
          ELSE BuildTimeline(pb, sb, mash, p + 1, timeline)

\* creator.py:103  "briefs": [primary_brief, secondary_brief]
EmbeddedPrimaryOnly(primary_brief, secondary_brief) == <<primary_brief>>

EmbeddedBriefs(primary_brief, secondary_brief) == <<primary_brief, secondary_brief>>

\* MashupCreator.create_mashup_recipe
CreateMashupRecipe(self, mash) ==
    LET primary_brief == DictGet(self.briefs, self.primary_title)
        secondary_brief == DictGet(self.briefs, self.secondary_title)
        built == BuildTimeline(primary_brief, secondary_brief, mash, 1, <<>>)
    IN  IF built.kind = "raise" THEN built
        ELSE [kind |-> "recipe",
              version |-> RecipeVersion,
              mashup_title |-> <<self.primary_title, "vs", self.secondary_title>>,
              target_tempo |-> primary_brief.tempo,
              target_key |-> primary_brief.estimated_key,
              timeline |-> built.items,
              briefs |-> EmbeddedBriefs(primary_brief, secondary_brief)]

----------------------------------------------------------------------------
(* engine.py: AudioEngine *)

\* analyzer.py:19  workspace/audio_sources/<title>.mp3
SourcePath(title) == [dir |-> "workspace/audio_sources", name |-> title, ext |-> "mp3"]

\* os.path.splitext(os.path.basename(path))[0]
BaseName(path) == path.name

\* self.recipe.get('briefs', [])
RecipeBriefs(r) == IF "briefs" \in DOMAIN r THEN r.briefs ELSE <<>>

\* AudioEngine(recipe): self.briefs is keyed by title (DictGet reads it).
NewAudioEngine(r) ==
    IF RecipeBriefs(r) = <<>>
    THEN [kind |-> "raise", error |-> "ValueError", step |-> "init"]
    ELSE [kind |-> "AudioEngine", recipe |-> r, briefs |-> RecipeBriefs(r)]

StemFile(stem_type) == IF stem_type = "vocals" THEN "vocals.wav" ELSE "no_vocals.wav"

StemPath(source_file, stem_type) ==
    [song |-> BaseName(source_file), file |-> StemFile(stem_type)]

\* AudioEngine._get_stem
GetStemNoFallback(self, disk, song_title, stem_type) ==
    LET source_brief == DictGet(self.briefs, song_title)
    IN  IF source_brief = None
        THEN [kind |-> "raise", error |-> "FileNotFoundError", outcome |-> "no brief"]
        ELSE IF StemPath(source_brief.source_file, stem_type) \notin disk.stems
        THEN [kind |-> "raise", error |-> "FileNotFoundError", outcome |-> "fatal"]
        ELSE [kind |-> "audio", outcome |-> "stem", length |-> AudioMs]

GetStem(self, disk, song_title, stem_type) ==
    LET source_brief == DictGet(self.briefs, song_title)
    IN  IF source_brief = None
        THEN [kind |-> "raise", error |-> "FileNotFoundError", outcome |-> "no brief"]
        ELSE IF StemPath(source_brief.source_file, stem_type) \notin disk.stems
        THEN IF source_brief.source_file \notin disk.sources
             THEN [kind |-> "raise", error |-> "FileNotFoundError", outcome |-> "fatal"]
             ELSE [kind |-> "audio", outcome |-> "full mix", length |-> AudioMs]
        ELSE [kind |-> "audio", outcome |-> "stem", length |-> AudioMs]

\* AudioEngine._get_segment_milliseconds (the brief is there: _get_stem ran)
GetSegmentMilliseconds(self, song_title, segment_name) ==
    LET brief == DictGet(self.briefs, song_title)
    IN  IF segment_name \notin 1..Len(brief.segments)
        THEN [kind |-> "raise", error |-> "ValueError"]
        ELSE [kind |-> "ok",
              start |-> ToMs(brief.segments[segment_name].start_time),
              end |-> ToMs(brief.segments[segment_name].end_time)]

\* AudioEngine._time_stretch_segment: the ratio current / target divides by
\* zero for an empty slot, and pyrubberband rejects a rate that is not
\* strictly positive, which a negative slot gives.
TimeStretchSegment(current_duration_ms, target_duration_ms) ==
    IF target_duration_ms = 0
    THEN [kind |-> "raise", error |-> "ZeroDivisionError"]
    ELSE IF current_duration_ms = 0 \/ target_duration_ms < 0
    THEN [kind |-> "raise", error |-> "ValueError"]
    ELSE [kind |-> "ok", length |-> target_duration_ms]

\* engine.py:68-79, the layers of one item from layer k on.  acc holds the
\* stem lookups made so far and the number of clips overlaid on the mix.
RECURSIVE MixLayers(_, _, _, _, _, _)
MixLayers(self, disk, layers, k, duration, acc) ==
    IF k > Len(layers) THEN [acc EXCEPT !.kind = "ok"]
    ELSE IF layers[k].details = None
    THEN MixLayers(self, disk, layers, k + 1, duration, acc)
    ELSE
      LET details == layers[k].details
          source_audio == GetStem(self, disk, details.source, layers[k].role)
          looked == [acc EXCEPT !.lookups = Append(@,
                        [song |-> details.source, stem_type |-> layers[k].role,
                         outcome |-> source_audio.outcome])]
      IN  IF source_audio.kind = "raise"
          THEN [looked EXCEPT !.kind = "raise", !.error = source_audio.error, !.step = "stem"]
          ELSE
            LET clip == GetSegmentMilliseconds(self, details.source, details.segment)
            IN  IF clip.kind = "raise"
                THEN [looked EXCEPT !.kind = "raise", !.error = clip.error, !.step = "segment"]
                ELSE
                  LET clip_len == SliceLen(source_audio.length, clip.start, clip.end)
                      stretched == TimeStretchSegment(clip_len, duration)
                  IN  IF /\ clip_len > 0
                         /\ Abs(clip_len - duration) > StretchToleranceMs
                         /\ stretched.kind = "raise"
                      THEN [looked EXCEPT !.kind = "raise", !.error = stretched.error,
                                          !.step = "stretch"]
                      ELSE MixLayers(self, disk, layers, k + 1, duration,
                              [looked EXCEPT !.overlaid = @ + 1])

\* pydub AudioSegment.append(seg, crossfade): ValueError when the crossfade is
\* longer than either side, else the lengths add up less the crossfade.
AudioAppend(final_len, seg_len, crossfade) ==
    IF crossfade = 0 THEN [kind |-> "ok", length |-> final_len + seg_len]
    ELSE IF crossfade > final_len \/ crossfade > seg_len
    THEN [kind |-> "raise", error |-> "ValueError"]
    ELSE [kind |-> "ok", length |-> final_len + seg_len - crossfade]

\* engine.py:64-80, the loop over the timeline from item i on.
RECURSIVE RenderItems(_, _, _, _)
RenderItems(self, disk, i, acc) ==
    IF i > Len(self.recipe.timeline) THEN [acc EXCEPT !.kind = "ok"]
    ELSE
      LET item == self.recipe.timeline[i]
          range == ParseTimeMs(item.time_ms)
      IN  IF range.kind = "raise"
          THEN [acc EXCEPT !.kind = "raise", !.error = range.error, !.step = "time_ms",
                           !.item = i]
          ELSE
            LET timeline_duration_ms == range.end - range.start
                mixed == MixLayers(self, disk, item.layers, 1, timeline_duration_ms,
                                   [acc EXCEPT !.item = i])
                joined == AudioAppend(acc.final_len, Max(0, timeline_duration_ms), CrossfadeMs)
            IN  IF mixed.kind = "raise" THEN mixed
                ELSE IF joined.kind = "raise"
                THEN [mixed EXCEPT !.kind = "raise", !.error = joined.error,
                                   !.step = "append"]
                ELSE RenderItems(self, disk, i + 1,
                        [mixed EXCEPT !.final_len = joined.length, !.appended = @ + 1])

\* engine.py:82-83  the output file name "<title>_v<version>.wav".
\* (every recipe of the model carries a version)
OutputFilename(r) == [title |-> r.mashup_title, version |-> r.version, ext |-> "wav"]

RenderStart ==
    [kind |-> "ok", error |-> "", step |-> "", item |-> 0, final_len |-> 0,
     lookups |-> <<>>, overlaid |-> 0, appended |-> 0]

\* AudioEngine.execute_recipe: what it returns (or raises) and the disk after.
ExecuteRecipeExportsPartial(self, disk) ==
    LET loop == RenderItems(self, disk, 1, RenderStart)
    IN  [result |-> [loop EXCEPT !.kind = IF loop.kind = "raise" THEN "raise" ELSE "filename"]
                       @@ [filename |-> IF loop.kind = "raise" THEN None
                                        ELSE OutputFilename(self.recipe)],
         disk |-> [disk EXCEPT !.mashups = @ \cup {OutputFilename(self.recipe)}]]

ExecuteRecipe(self, disk) ==
    LET loop == RenderItems(self, disk, 1, RenderStart)
    IN  IF loop.kind = "raise"
        THEN [result |-> loop @@ [filename |-> None], disk |-> disk]
        ELSE [result |-> [loop EXCEPT !.kind = "filename"]
                            @@ [filename |-> OutputFilename(self.recipe)],
              disk |-> [disk EXCEPT !.mashups = @ \cup {OutputFilename(self.recipe)}]]

----------------------------------------------------------------------------
(* reviser.py: RevisionEngine *)

NoKeys == [openai |-> FALSE, anthropic |-> FALSE]

\* RevisionEngine(current_recipe, user_command): a client per API key set.
NewRevisionEngine(current_recipe, user_command, env) ==
    IF ~env.openai /\ ~env.anthropic
    THEN [kind |-> "raise", error |-> "EnvironmentError"]
    ELSE [kind |-> "RevisionEngine", recipe |-> current_recipe, command |-> user_command,
          openai_client |-> env.openai, anthropic_client |-> env.anthropic]

\* What a provider call comes to: the call raises, or answers text that
\* json.loads rejects, or answers text that json.loads parses to `value`.
NotCalled == [kind |-> "not called"]

ApiError == [kind |-> "api error"]

Garbage == [kind |-> "text", json |-> FALSE]

Json(value) == [kind |-> "text", json |-> TRUE, value |-> value]

Parsed(reply) == reply.kind = "text" /\ reply.json

\* RevisionEngine.revise: OpenAI first, Anthropic when OpenAI raised or is not
\* configured, the original recipe when neither gave parseable JSON.
ReviseBumpsVersion(self, openai_reply, anthropic_reply) ==
    IF self.openai_client /\ Parsed(openai_reply) THEN openai_reply.value
    ELSE IF self.anthropic_client /\ Parsed(anthropic_reply) THEN anthropic_reply.value
    ELSE [self.recipe EXCEPT !.version = @ + 1]

Revise(self, openai_reply, anthropic_reply) ==
    IF self.openai_client /\ Parsed(openai_reply) THEN openai_reply.value
    ELSE IF self.anthropic_client /\ Parsed(anthropic_reply) THEN anthropic_reply.value
    ELSE self.recipe

----------------------------------------------------------------------------
(* The recipe builder as a state machine: the briefs are drawn at Init. *)

Seg(st, et, sb, eb) ==
    [start_time |-> st, end_time |-> et, start_beat |-> sb, end_beat |-> eb]

MkBrief(title, tempo, segments, nbeats) ==
    [title |-> title, tempo |-> tempo, estimated_key |-> "C",
     source_file |-> SourcePath(title), segments |-> segments, nbeats |-> nbeats]

SeqsOf(S, lo, hi) == UNION {[1..k -> S] : k \in lo..hi}

Titles == {"A", "B"}

Tempos == {100, 120, 128}

ScoreVals == {-12, 3, 7}

\* Segment i of a song whose segments follow one another, one millisecond each.
SegAt(i, shape) == Seg((i - 1) * TicksPerMs, i * TicksPerMs, shape[1], shape[2])

Shaped(shapes) == [i \in 1..Len(shapes) |-> SegAt(i, shapes[i])]

PrimaryShapes == {<<0, 0>>, <<0, 1>>, <<0, 2>>}

SecondaryShapes == {<<0, 1>>, <<0, 2>>, <<0, MaxBeat>>, <<1, MaxBeat>>}

FlatScores == [pr \in (1..2) \X (1..2) |-> 3]

\* Family 1: any list of up to MaxBriefs briefs, titles and tempos varying.
InitRoles ==
    /\ creative_briefs \in SeqsOf(
          {MkBrief(t, bpm, Shaped(<<<<0, 1>>, <<1, 2>>>>), 2) : t \in Titles, bpm \in Tempos},
          0, MaxBriefs)
    /\ mashability = FlatScores

\* Family 2: two songs, beat ranges, feature widths and scores varying.
InitPairs ==
    \E ps \in SeqsOf(PrimaryShapes, 1, 2), ss \in SeqsOf(SecondaryShapes, 1, 2),
       pw \in {1, 2}, sw \in {1, MaxBeat} :
        /\ creative_briefs = <<MkBrief("A", 128, Shaped(ps), pw),
                               MkBrief("B", 120, Shaped(ss), sw)>>
        /\ mashability \in [(1..Len(ps)) \X (1..Len(ss)) -> ScoreVals]

\* Family 3: two songs, the primary's segment times varying.
TimedSegs ==
    {Seg(st, et, 0, 1) : st \in 0..MaxTick, et \in 0..MaxTick}

InitTimes ==
    /\ \E segs \in SeqsOf(TimedSegs, 1, 2) :
          creative_briefs = <<MkBrief("A", 128, segs, 2),
                              MkBrief("B", 120, Shaped(<<<<0, 1>>>>), 2)>>
    /\ mashability = FlatScores

NoDisk == [sources |-> {}, stems |-> {}, mashups |-> {}]

InitBuild ==
    /\ InitRoles \/ InitPairs \/ InitTimes
    /\ creator = None
    /\ recipe = None
    /\ fs = NoDisk
    /\ engine = None
    /\ rendered = None
    /\ environ = NoKeys
    /\ jobs = <<>>
    /\ threads = <<>>
    /\ polled = None

\* director = MashupCreator(creative_briefs)
Construct ==
    /\ creator = None
    /\ creator' = NewMashupCreator(creative_briefs)
    /\ UNCHANGED <<creative_briefs, mashability, recipe, renderVars, jobVars>>

\* recipe = director.create_mashup_recipe()
CreateRecipe ==
    /\ creator.kind = "MashupCreator"
    /\ recipe = None
    /\ recipe' = CreateMashupRecipe(creator, mashability)
    /\ UNCHANGED <<creative_briefs, mashability, creator, renderVars, jobVars>>

NextBuild == Construct \/ CreateRecipe

SpecBuild == InitBuild /\ [][NextBuild]_vars

----------------------------------------------------------------------------
(* The rendering engine as a state machine: the recipe and the workspace   *)
(* are drawn at Init.                                                      *)

\* A song of one segment, 150 ms long.
RenderBrief(title, tempo) ==
    MkBrief(title, tempo, <<Seg(0, 150 * TicksPerMs, 0, 1)>>, 1)

Layer(role, details) == [role |-> role, details |-> details]

Details(source, segment) == [source |-> source, segment |-> segment]

\* Slots of 150 and 50 ms, an empty slot and a slot that ends before it starts.
RenderSpans == {<<0, 150>>, <<150, 300>>, <<0, 50>>, <<0, 0>>, <<2, 0>>}

\* Items whose first layer may name an unknown song ("Z") or an unknown
\* segment (9), and whose second layer may be empty.
TimelineItems ==
    {[time_ms |-> FormatTimeMs(span[1], span[2]),
      description |-> <<1, 1>>,
      layers |-> <<Layer("instrumental", ins), Layer("vocals", voc)>>] :
        span \in RenderSpans,
        ins \in {Details("A", 1), Details("Z", 1), Details("A", 9)},
        voc \in {Details("B", 1), None}}

MkRecipe(version, timeline, briefs) ==
    [kind |-> "recipe", version |-> version, mashup_title |-> <<"A", "vs", "B">>,
     target_tempo |-> 128, target_key |-> "C", timeline |-> timeline, briefs |-> briefs]

Disks ==
    {[sources |-> src, stems |-> stm, mashups |-> {}] :
        src \in SUBSET {SourcePath("A"), SourcePath("B")},
        stm \in SUBSET {StemPath(SourcePath("A"), "instrumental"),
                        StemPath(SourcePath("B"), "vocals")}}

InitRender ==
    /\ creative_briefs = <<>>
    /\ mashability = FlatScores
    /\ creator = None
    /\ \E timeline \in SeqsOf(TimelineItems, 0, 2),
          briefs \in {<<>>, <<RenderBrief("A", 128), RenderBrief("B", 120)>>} :
            recipe = MkRecipe(2, timeline, briefs)
    /\ fs \in Disks
    /\ engine = None
    /\ rendered = None
    /\ environ = NoKeys
    /\ jobs = <<>>
    /\ threads = <<>>
    /\ polled = None

\* audio_engine = AudioEngine(recipe)
EngineInit ==
    /\ engine = None
    /\ engine' = NewAudioEngine(recipe)
    /\ UNCHANGED <<builderVars, fs, rendered, jobVars>>

\* output_filename = audio_engine.execute_recipe()
Execute ==
    /\ engine.kind = "AudioEngine"
    /\ rendered = None
    /\ LET out == ExecuteRecipe(engine, fs)
       IN  /\ rendered' = out.result
           /\ fs' = out.disk
    /\ UNCHANGED <<builderVars, engine, jobVars>>

NextRender == EngineInit \/ Execute

SpecRender == InitRender /\ [][NextRender]_vars

----------------------------------------------------------------------------
(* app.py and tasks.py: the endpoints and the background tasks.  A thread  *)
(* takes one step per statement that writes the job map, and one per call  *)
(* into the analyzer, the builder, the reviser or the engine.              *)

SongLists == {<<"A">>, <<"A", "B">>}

\* What AudioAnalyzer(query).full_analysis() may return: None when the
\* download fails, else the brief of the song.
AnalysisOf(query) ==
    IF query = "A"
    THEN {None, MkBrief("A", 128, Shaped(<<<<0, 1>>>>), 2),
                MkBrief("A", 128, Shaped(<<<<0, 0>>>>), 2)}
    ELSE {None, MkBrief("B", 120, Shaped(<<<<0, 1>>>>), 2),
                MkBrief("B", 120, Shaped(<<<<0, 2>>>>), 2)}

StoredBriefs == <<RenderBrief("A", 128), RenderBrief("B", 120)>>

OneItem ==
    [time_ms |-> FormatTimeMs(0, 150), description |-> <<1, 1>>,
     layers |-> <<Layer("instrumental", Details("A", 1)),
                  Layer("vocals", Details("B", 1))>>]

\* Recipes a client may send to /api/mashup/revise: two stored ones, or the
\* recipe an earlier job reported.
ClientRecipes ==
    {MkRecipe(2, <<>>, StoredBriefs), MkRecipe(2, <<OneItem>>, StoredBriefs)}
        \cup {jobs[k].result.recipe : k \in {n \in DOMAIN jobs : jobs[n].result # None}}

ReviseRequests ==
    {[mashup_id |-> "m", current_recipe |-> r, user_command |-> "make it 1 bar shorter"] :
        r \in ClientRecipes}
        \cup {[mashup_id |-> "m", current_recipe |-> MkRecipe(2, <<>>, StoredBriefs)]}

\* What a provider may answer to the prompt for recipe r: a failure, text
\* that is not JSON, a JSON object that is no recipe, the recipe revised as
\* the prompt asks (version + 1, here with the timeline cut), or a recipe
\* whose version the provider did not increment.
Replies(r) ==
    {ApiError, Garbage, Json([kind |-> "object"]),
     Json([r EXCEPT !.version = @ + 1, !.timeline = <<>>]),
     Json([r EXCEPT !.timeline = <<>>])}

\* tasks.py:33, 64  os.path.splitext(os.path.basename(output_filename))[0]
MashupId(output_filename) ==
    [title |-> output_filename.title, version |-> output_filename.version]

Entry(progress) ==
    [status |-> "pending", progress |-> progress, result |-> None, error |-> None]

NewThread(task, songs, data) ==
    [task |-> task, pc |-> "start", songs |-> songs, data |-> data, i |-> 1,
     creative_briefs |-> <<>>, recipe |-> None, output_filename |-> None,
     error |-> None, ran |-> <<>>, openai_reply |-> NotCalled,
     anthropic_reply |-> NotCalled]

\* app.py:20-37  POST /api/mashup/create
CreateMashup ==
    /\ Len(jobs) < MaxJobs
    /\ \E songs \in SongLists :
          /\ Len(songs) >= 2
          /\ jobs' = Append(jobs, Entry(<<"queued">>))
          /\ threads' = Append(threads, NewThread("create", songs, None))
    /\ UNCHANGED <<builderVars, renderVars, environ, polled>>

\* app.py:46-62  POST /api/mashup/revise
ReviseMashup ==
    /\ Len(jobs) < MaxJobs
    /\ \E data \in ReviseRequests :
          /\ {"mashup_id", "current_recipe", "user_command"} \subseteq DOMAIN data
          /\ jobs' = Append(jobs, Entry(<<"queued for revision">>))
          /\ threads' = Append(threads, NewThread("revise", <<>>, data))
    /\ UNCHANGED <<builderVars, renderVars, environ, polled>>

\* app.py:39-44  GET /api/mashup/status/<job_id>
GetStatus ==
    /\ \E job_id \in 1..MaxJobs :
          polled' = IF job_id \in DOMAIN jobs THEN jobs[job_id]
                    ELSE [error |-> "Job not found"]
    /\ UNCHANGED <<builderVars, renderVars, environ, jobs, threads>>

At(j, pc) == j \in DOMAIN threads /\ threads[j].pc = pc

Goto(j, pc) == [threads EXCEPT ![j].pc = pc]

\* The exception object bound to `e`, and str(e).
Exception(e) == [kind |-> "Exception", message |-> e]

Str(e) == [kind |-> "str", value |-> e.message]

\* An exception inside the try block: control goes to the except clause.
RaiseKeepsGoing(j, stage, e) ==
    [threads EXCEPT ![j].pc = "finalize", ![j].error = Exception(e),
                    ![j].ran = Append(@, stage)]

Raise(j, stage, e) ==
    [threads EXCEPT ![j].pc = "except", ![j].error = Exception(e),
                    ![j].ran = Append(@, stage)]

\* tasks.py:10, 51  jobs[job_id]["status"] = "processing"
T_Start(j) ==
    /\ At(j, "start")
    /\ jobs' = [jobs EXCEPT ![j].status = "processing"]
    /\ threads' = Goto(j, IF threads[j].task = "create" THEN "analyze" ELSE "revise")
    /\ UNCHANGED <<builderVars, renderVars, environ, polled>>

\* tasks.py:15  jobs[job_id]["progress"] = "Analyzing song i/n"
T_AnalyzeProgress(j) ==
    /\ At(j, "analyze")
    /\ jobs' = [jobs EXCEPT ![j].progress = <<"Analyzing song", threads[j].i>>]
    /\ threads' = Goto(j, "analyzing")
    /\ UNCHANGED <<builderVars, renderVars, environ, polled>>

\* tasks.py:16-20  the analysis of song i; the download leaves the source
\* audio in the workspace.
T_Analyze(j) ==
    /\ At(j, "analyzing")
    /\ \E brief \in AnalysisOf(threads[j].songs[threads[j].i]) :
          IF brief = None
          THEN /\ threads' = Raise(j, "analysis", "Analysis failed")
               /\ fs' = fs
          ELSE /\ threads' = [threads EXCEPT
                     ![j].creative_briefs = Append(@, brief),
                     ![j].ran = Append(@, "analysis"),
                     ![j].i = IF @ < Len(threads[j].songs) THEN @ + 1 ELSE @,
                     ![j].pc = IF threads[j].i < Len(threads[j].songs)
                               THEN "analyze" ELSE "build"]
               /\ fs' = [fs EXCEPT !.sources = @ \cup {brief.source_file}]
    /\ UNCHANGED <<builderVars, engine, rendered, environ, jobs, polled>>

\* tasks.py:23  jobs[job_id]["progress"] = "Generating creative recipe..."
T_BuildProgress(j) ==
    /\ At(j, "build")
    /\ jobs' = [jobs EXCEPT ![j].progress = <<"Generating creative recipe...">>]
    /\ threads' = Goto(j, "building")
    /\ UNCHANGED <<builderVars, renderVars, environ, polled>>

\* tasks.py:24-25  MashupCreator(creative_briefs).create_mashup_recipe()
T_Build(j) ==
    /\ At(j, "building")
    /\ \E director \in {NewMashupCreator(threads[j].creative_briefs)} :
          IF director.kind = "raise"
          THEN threads' = Raise(j, "build", director.error)
          ELSE \E built \in {CreateMashupRecipe(director, FlatScores)} :
                  threads' =
                     IF built.kind = "raise" THEN Raise(j, "build", built.error)
                     ELSE [threads EXCEPT ![j].recipe = built, ![j].pc = "render",
                                          ![j].ran = Append(@, "build")]
    /\ UNCHANGED <<builderVars, renderVars, environ, jobs, polled>>

\* tasks.py:54  jobs[job_id]["progress"] = "Revising recipe with AI assistant..."
T_ReviseProgress(j) ==
    /\ At(j, "revise")
    /\ jobs' = [jobs EXCEPT ![j].progress = <<"Revising recipe with AI assistant...">>]
    /\ threads' = Goto(j, "revising")
    /\ UNCHANGED <<builderVars, renderVars, environ, polled>>

\* tasks.py:55-56  RevisionEngine(current_recipe, user_command).revise(); a
\* provider is called only when its client exists, and Anthropic only when
\* OpenAI gave no parseable answer.
T_Revise(j) ==
    /\ At(j, "revising")
    /\ LET data == threads[j].data
           reviser == NewRevisionEngine(data.current_recipe, data.user_command, environ)
       IN  IF reviser.kind = "raise"
           THEN threads' = Raise(j, "revision", reviser.error)
           ELSE \E o \in (IF reviser.openai_client THEN Replies(data.current_recipe)
                          ELSE {NotCalled}) :
                \E a \in (IF reviser.anthropic_client /\ ~Parsed(o)
                          THEN Replies(data.current_recipe) ELSE {NotCalled}) :
                    threads' = [threads EXCEPT
                        ![j].recipe = Revise(reviser, o, a),
                        ![j].openai_reply = o,
                        ![j].anthropic_reply = a,
                        ![j].ran = Append(@, "revision"),
                        ![j].pc = "render"]
    /\ UNCHANGED <<builderVars, renderVars, environ, jobs, polled>>

\* tasks.py:28, 59  jobs[job_id]["progress"] = "Rendering audio..."
T_RenderProgress(j) ==
    /\ At(j, "render")
    /\ jobs' = [jobs EXCEPT ![j].progress =
                  IF threads[j].task = "create" THEN <<"Rendering audio...">>
                  ELSE <<"Re-rendering audio...">>]
    /\ threads' = Goto(j, "rendering")
    /\ UNCHANGED <<builderVars, renderVars, environ, polled>>

\* tasks.py:29-30, 60-61  AudioEngine(recipe).execute_recipe()
T_Render(j) ==
    /\ At(j, "rendering")
    /\ \E audio_engine \in {NewAudioEngine(threads[j].recipe)} :
          IF audio_engine.kind = "raise"
          THEN /\ threads' = Raise(j, "render", audio_engine.error)
               /\ fs' = fs
          ELSE \E out \in {ExecuteRecipe(audio_engine, fs)} :
                  /\ threads' =
                        IF out.result.kind = "raise"
                        THEN Raise(j, "render", out.result.error)
                        ELSE [threads EXCEPT
                                ![j].output_filename = out.result.filename,
                                ![j].ran = Append(@, "render"),
                                ![j].pc = "finalize"]
                  /\ fs' = out.disk
    /\ UNCHANGED <<builderVars, engine, rendered, environ, jobs, polled>>

\* tasks.py:34, 65  jobs[job_id]["status"] = "complete"
T_Complete(j) ==
    /\ At(j, "finalize")
    /\ jobs' = [jobs EXCEPT ![j].status = "complete"]
    /\ threads' = Goto(j, "finalize progress")
    /\ UNCHANGED <<builderVars, renderVars, environ, polled>>

\* tasks.py:35, 66  jobs[job_id]["progress"] = "Done"
T_Done(j) ==
    /\ At(j, "finalize progress")
    /\ jobs' = [jobs EXCEPT ![j].progress = <<"Done">>]
    /\ threads' = Goto(j, "finalize result")
    /\ UNCHANGED <<builderVars, renderVars, environ, polled>>

\* tasks.py:33, 36-40, 64, 67-71  jobs[job_id]["result"] = {...}
T_Result(j) ==
    /\ At(j, "finalize result")
    /\ jobs' = [jobs EXCEPT ![j].result =
                  [mashup_id |-> MashupId(threads[j].output_filename),
                   audio_url |-> <<"/api/mashup/audio/", threads[j].output_filename>>,
                   recipe |-> threads[j].recipe]]
    /\ threads' = Goto(j, "done")
    /\ UNCHANGED <<builderVars, renderVars, environ, polled>>

\* tasks.py:44, 75  jobs[job_id]["status"] = "failed"
T_Failed(j) ==
    /\ At(j, "except")
    /\ jobs' = [jobs EXCEPT ![j].status = "failed"]
    /\ threads' = Goto(j, "except error")
    /\ UNCHANGED <<builderVars, renderVars, environ, polled>>

\* tasks.py:45, 76  jobs[job_id]["error"] = str(e)
T_Error(j) ==
    /\ At(j, "except error")
    /\ jobs' = [jobs EXCEPT ![j].error = Str(threads[j].error)]
    /\ threads' = Goto(j, "done")
    /\ UNCHANGED <<builderVars, renderVars, environ, polled>>

ThreadStep(j) ==
    \/ T_Start(j)
    \/ T_AnalyzeProgress(j)
    \/ T_Analyze(j)
    \/ T_BuildProgress(j)
    \/ T_Build(j)
    \/ T_ReviseProgress(j)
    \/ T_Revise(j)
    \/ T_RenderProgress(j)
    \/ T_Render(j)
    \/ T_Complete(j)
    \/ T_Done(j)
    \/ T_Result(j)
    \/ T_Failed(j)
    \/ T_Error(j)

InitJobs ==
    /\ creative_briefs = <<>>
    /\ mashability = FlatScores
    /\ creator = None
    /\ recipe = None
    /\ engine = None
    /\ rendered = None
    /\ fs \in {NoDisk, [NoDisk EXCEPT !.sources = {SourcePath("A"), SourcePath("B")}]}
    /\ environ \in [openai : BOOLEAN, anthropic : BOOLEAN]
    /\ jobs = <<>>
    /\ threads = <<>>
    /\ polled = None

NextJobs ==
    \/ CreateMashup
    \/ ReviseMashup
    \/ GetStatus
    \/ \E j \in 1..MaxJobs : ThreadStep(j)

SpecJobs == InitJobs /\ [][NextJobs]_vars

\* Threads are scheduled fairly, and every call a thread makes returns.
FairSpecJobs == SpecJobs /\ \A j \in 1..MaxJobs : WF_vars(ThreadStep(j))

----------------------------------------------------------------------------
(* Properties of the recipe builder. *)

Returned == recipe.kind = "recipe"

PrimaryBrief == recipe.briefs[1]

SecondaryBrief == recipe.briefs[2]

\* The pair (p, s) passes the gate and the zero-length check.
Eligible(pb, sb, p, s) ==
    /\ Abs(BeatLen(pb.segments[p]) - BeatLen(sb.segments[s])) <= GateBeats
    /\ SliceLen(pb.nbeats, pb.segments[p].start_beat, pb.segments[p].end_beat) > 0
    /\ SliceLen(sb.nbeats, sb.segments[s].start_beat, sb.segments[s].end_beat) > 0

SameSliceLen(pb, sb, p, s) ==
    SliceLen(pb.nbeats, pb.segments[p].start_beat, pb.segments[p].end_beat)
        = SliceLen(sb.nbeats, sb.segments[s].start_beat, sb.segments[s].end_beat)

ItemPairs(p, s) ==
    \E i \in 1..Len(recipe.timeline) :
        /\ recipe.timeline[i].layers[1].details.segment = p
        /\ recipe.timeline[i].layers[2].details.segment = s

\* C1. Duration gate: in a returned recipe no timeline item pairs a primary
\* segment with a secondary segment whose beat lengths differ by more than 8.
C1_DurationGate ==
    Returned =>
        \A p \in 1..Len(PrimaryBrief.segments), s \in 1..Len(SecondaryBrief.segments) :
            Abs(BeatLen(PrimaryBrief.segments[p]) - BeatLen(SecondaryBrief.segments[s])) > 8
                => ~ItemPairs(p, s)

\* A recipe came back with a timeline, and a pair more than 8 beats apart had
\* non-empty slices of one length and a score the scorer would have accepted:
\* only the gate kept it out.
C1_Witness ==
    /\ Returned
    /\ recipe.timeline # <<>>
    /\ \E p \in 1..Len(PrimaryBrief.segments), s \in 1..Len(SecondaryBrief.segments) :
          /\ Abs(BeatLen(PrimaryBrief.segments[p]) - BeatLen(SecondaryBrief.segments[s])) > 8
          /\ SameSliceLen(PrimaryBrief, SecondaryBrief, p, s)
          /\ SliceLen(PrimaryBrief.nbeats, PrimaryBrief.segments[p].start_beat,
                      PrimaryBrief.segments[p].end_beat) > 0
          /\ mashability[<<p, s>>] = 7
          /\ \E i \in 1..Len(recipe.timeline) :
                /\ recipe.timeline[i].layers[1].details.segment = p
                /\ mashability[<<p, recipe.timeline[i].layers[2].details.segment>>] = 3

\* The timeline holds an item for primary segment p: its time range, the
\* primary song as the instrumental layer and the secondary song as vocals.
ItemFor(p) ==
    \E i \in 1..Len(recipe.timeline) :
        LET item == recipe.timeline[i]
        IN  /\ item.time_ms = FormatTimeMs(ToMs(PrimaryBrief.segments[p].start_time),
                                           ToMs(PrimaryBrief.segments[p].end_time))
            /\ item.layers[1] = [role |-> "instrumental",
                                 details |-> [source |-> PrimaryBrief.title, segment |-> p]]
            /\ item.layers[2].role = "vocals"
            /\ item.layers[2].details.source = SecondaryBrief.title

\* C2. Every primary segment with at least one eligible secondary segment,
\* whatever score it gets in [-1.4, 1.4], has its item in the built timeline;
\* a primary segment is dropped only when no candidate was eligible.
C2_EligibleIsEmitted ==
    Returned =>
        \A p \in 1..Len(PrimaryBrief.segments) :
            (\E s \in 1..Len(SecondaryBrief.segments) :
                Eligible(PrimaryBrief, SecondaryBrief, p, s)) <=> ItemFor(p)

TimeRange(i) == ParseTimeMs(recipe.timeline[i].time_ms)

\* The Segment invariants the data model states.
SegmentInvariants(b) ==
    /\ \A i \in 1..Len(b.segments) :
          /\ b.segments[i].start_time < b.segments[i].end_time
          /\ b.segments[i].start_beat <= b.segments[i].end_beat
    /\ \A i \in 1..(Len(b.segments) - 1) :
          /\ b.segments[i].start_beat <= b.segments[i + 1].start_beat
          /\ b.segments[i].end_beat <= b.segments[i + 1].end_beat

\* The segments of a brief follow one another in time.
TimesInSequence(b) ==
    \A i \in 1..(Len(b.segments) - 1) :
        b.segments[i].end_time <= b.segments[i + 1].start_time

InPrimaryOrder ==
    \A i \in 1..(Len(recipe.timeline) - 1) :
        recipe.timeline[i].layers[1].details.segment
            < recipe.timeline[i + 1].layers[1].details.segment

NonOverlapping ==
    \A i \in 1..Len(recipe.timeline), j \in 1..Len(recipe.timeline) :
        i < j => /\ TimeRange(i).start <= TimeRange(j).start
                 /\ TimeRange(i).end <= TimeRange(j).start

\* C3 as stated. Timeline coverage: from briefs that satisfy the Segment
\* invariants, the items come in primary-segment order, their time_ms ranges
\* do not overlap and do not decrease in start time, each with end > start.
C3_Original ==
    (Returned /\ SegmentInvariants(PrimaryBrief) /\ SegmentInvariants(SecondaryBrief)) =>
        /\ InPrimaryOrder
        /\ NonOverlapping
        /\ \A i \in 1..Len(recipe.timeline) : TimeRange(i).end > TimeRange(i).start

\* C3 as amended. When moreover the primary's segments follow one another in
\* time, the items come in primary-segment order, their time_ms ranges do not
\* overlap and do not decrease in start time, each with end >= start.
C3_TimelineCoverage ==
    (/\ Returned
     /\ SegmentInvariants(PrimaryBrief)
     /\ SegmentInvariants(SecondaryBrief)
     /\ TimesInSequence(PrimaryBrief)) =>
        /\ InPrimaryOrder
        /\ NonOverlapping
        /\ \A i \in 1..Len(recipe.timeline) :
              /\ TimeRange(i).kind = "ok"
              /\ TimeRange(i).end >= TimeRange(i).start

\* Two items built from two segments in sequence, the first shorter than a
\* millisecond: its range is empty.
C3_Witness ==
    /\ Returned
    /\ SegmentInvariants(PrimaryBrief)
    /\ SegmentInvariants(SecondaryBrief)
    /\ TimesInSequence(PrimaryBrief)
    /\ Len(recipe.timeline) = 2
    /\ TimeRange(1).end = TimeRange(1).start
    /\ TimeRange(2).end > TimeRange(2).start

MaxTempo(bs) == CHOOSE m \in {bs[i].tempo : i \in 1..Len(bs)} :
                    \A i \in 1..Len(bs) : bs[i].tempo <= m

MinTempo(bs) == CHOOSE m \in {bs[i].tempo : i \in 1..Len(bs)} :
                    \A i \in 1..Len(bs) : bs[i].tempo >= m

\* C4. Role assignment: from two or more briefs the primary is a brief of
\* maximal tempo, the secondary one of minimal tempo, the two roles are held
\* by two different briefs (also with equal tempos or coinciding titles), and
\* the recipe's target tempo and key are the primary's.
C4_RoleAssignment ==
    /\ creator.kind = "MashupCreator" =>
          /\ Len(creative_briefs) >= 2
          /\ \E i, j \in 1..Len(creative_briefs) :
                /\ i # j
                /\ creative_briefs[i].title = creator.primary_title
                /\ creative_briefs[i].tempo = MaxTempo(creative_briefs)
                /\ creative_briefs[j].title = creator.secondary_title
                /\ creative_briefs[j].tempo = MinTempo(creative_briefs)
                /\ (Returned => /\ recipe.briefs = <<creative_briefs[i], creative_briefs[j]>>
                                /\ recipe.target_tempo = creative_briefs[i].tempo
                                /\ recipe.target_key = creative_briefs[i].estimated_key)
    /\ Len(creative_briefs) >= 2 => creator.kind # "raise"

\* C10. Mismatched-length pairs are scoreable: when some eligible pair has
\* slices of different non-zero lengths (beat lengths 1 to 8 apart), the
\* scorer still returns a score and the build returns a recipe of version 2.
C10_MismatchedScoreable ==
    (/\ creator.kind = "MashupCreator"
     /\ recipe # None
     /\ LET pb == DictGet(creator.briefs, creator.primary_title)
            sb == DictGet(creator.briefs, creator.secondary_title)
        IN  \E p \in 1..Len(pb.segments), s \in 1..Len(sb.segments) :
                /\ Eligible(pb, sb, p, s)
                /\ BeatLen(pb.segments[p]) # BeatLen(sb.segments[s])
                /\ ~SameSliceLen(pb, sb, p, s)) =>
        /\ Returned
        /\ recipe.version = 2

\* The segments the two layers of timeline item i name.
ItemPrimary(i) == recipe.timeline[i].layers[1].details.segment

ItemVocals(i) == recipe.timeline[i].layers[2].details.segment

\* C11. Best-match selection: in every emitted timeline item the vocals
\* segment is an eligible secondary segment that scores at least as high as
\* every other eligible secondary segment for that primary segment, and among
\* those of the same maximal score it is the earliest in iteration order.
C11_BestMatch ==
    Returned =>
        \A i \in 1..Len(recipe.timeline) :
            LET p == ItemPrimary(i)
                s == ItemVocals(i)
            IN  /\ s \in 1..Len(SecondaryBrief.segments)
                /\ Eligible(PrimaryBrief, SecondaryBrief, p, s)
                /\ \A t \in 1..Len(SecondaryBrief.segments) :
                      Eligible(PrimaryBrief, SecondaryBrief, p, t) =>
                          /\ mashability[<<p, s>>] >= mashability[<<p, t>>]
                          /\ (t < s => mashability[<<p, t>>] < mashability[<<p, s>>])

\* Two recipes' worth of cases in one: an item whose vocals segment is the
\* first of two eligible segments with the same score, and an item whose
\* vocals segment is the second because it scores strictly higher.
C11_Witness ==
    /\ Returned
    /\ Len(recipe.timeline) = 2
    /\ Len(SecondaryBrief.segments) = 2
    /\ \A i \in 1..2 : \A t \in 1..2 :
          Eligible(PrimaryBrief, SecondaryBrief, ItemPrimary(i), t)
    /\ ItemVocals(1) = 1
    /\ mashability[<<ItemPrimary(1), 1>>] = mashability[<<ItemPrimary(1), 2>>]
    /\ ItemVocals(2) = 2
    /\ mashability[<<ItemPrimary(2), 1>>] < mashability[<<ItemPrimary(2), 2>>]

\* The workspace with the source audio of both songs and no stems.
SourcesOnDisk == [NoDisk EXCEPT !.sources = {SourcePath(t) : t \in Titles}]

\* What AudioEngine(recipe).execute_recipe() returns or raises on `disk`.
RenderOfBuilt(disk) == ExecuteRecipe(NewAudioEngine(recipe), disk).result

\* Layer k of item i names a brief the engine finds by title and a segment of
\* that brief.
LayerResolves(i, k) ==
    LET details == recipe.timeline[i].layers[k].details
        self == NewAudioEngine(recipe)
    IN  /\ DictGet(self.briefs, details.source) # None
        /\ DictGet(self.briefs, details.source) \in Range(recipe.briefs)
        /\ GetSegmentMilliseconds(self, details.source, details.segment).kind = "ok"

\* C14. Builder output is self-contained: a returned recipe embeds exactly the
\* primary and the secondary brief, every layer of every item resolves to one
\* of them and to a segment of it, and rendering the recipe never fails on an
\* unresolved song or segment.
C14_SelfContained ==
    Returned =>
        /\ recipe.briefs = <<DictGet(creator.briefs, creator.primary_title),
                             DictGet(creator.briefs, creator.secondary_title)>>
        /\ NewAudioEngine(recipe).kind = "AudioEngine"
        /\ \A i \in 1..Len(recipe.timeline) :
              \A k \in 1..Len(recipe.timeline[i].layers) : LayerResolves(i, k)
        /\ \A disk \in {NoDisk, SourcesOnDisk} :
              LET out == RenderOfBuilt(disk)
              IN  /\ ~(out.kind = "raise" /\ out.step \in {"init", "segment"})
                  /\ \A n \in 1..Len(out.lookups) : out.lookups[n].outcome # "no brief"

\* A recipe of two different songs with two items came back, and the engine
\* resolved both layers of its first item on a workspace holding the sources.
C14_Witness ==
    /\ Returned
    /\ Len(recipe.timeline) = 2
    /\ PrimaryBrief.title # SecondaryBrief.title
    /\ LET out == RenderOfBuilt(SourcesOnDisk)
       IN  /\ Len(out.lookups) = 2
           /\ \A n \in 1..2 : out.lookups[n].outcome = "full mix"
           /\ out.overlaid = 2

----------------------------------------------------------------------------
(* Properties of the rendering engine. *)

RenderFailed == engine.kind = "raise" \/ rendered.kind = "raise"

\* C7. No partial output: when a render fails (no embedded briefs, a song or
\* segment that does not resolve, stem and source both missing, at whatever
\* item), no output file is written and no file name is returned.
C7_NoPartialOutput ==
    RenderFailed =>
        /\ fs.mashups = {}
        /\ rendered.kind = "raise" => rendered.filename = None
        /\ engine.kind = "raise" => rendered = None

\* The render failed on a missing stem and source after a first clip had been
\* overlaid on the item's mix, and nothing was written.
C7_Witness ==
    /\ rendered.kind = "raise"
    /\ rendered.step = "stem"
    /\ rendered.lookups[Len(rendered.lookups)].outcome = "fatal"
    /\ rendered.overlaid >= 1
    /\ fs.mashups = {}

HasStem(song, stem_type) ==
    StemPath(DictGet(engine.briefs, song).source_file, stem_type) \in fs.stems

HasSource(song) == DictGet(engine.briefs, song).source_file \in fs.sources

\* C8. Stem resolution, for a layer whose song resolves to a brief: the
\* isolated stem when it exists; else the full mix when it exists, and the
\* render goes on; else, and only then, the lookup is fatal for the render.
C8_StemResolution ==
    rendered # None =>
        \A k \in 1..Len(rendered.lookups) :
            LET look == rendered.lookups[k]
                last == k = Len(rendered.lookups)
            IN  look.outcome # "no brief" =>
                  /\ look.outcome \in {"stem", "full mix", "fatal"}
                  /\ look.outcome = "stem" <=> HasStem(look.song, look.stem_type)
                  /\ look.outcome = "full mix" <=>
                        (~HasStem(look.song, look.stem_type) /\ HasSource(look.song))
                  /\ look.outcome = "fatal" <=>
                        (~HasStem(look.song, look.stem_type) /\ ~HasSource(look.song))
                  /\ look.outcome = "fatal" =>
                        (last /\ rendered.kind = "raise" /\ rendered.step = "stem")
                  /\ look.outcome # "fatal" =>
                        ~(last /\ rendered.kind = "raise" /\ rendered.step = "stem")

\* One render took the full mix for one layer, went on, and found the
\* isolated stem for the next.
C8_Witness ==
    /\ rendered # None
    /\ \E k \in 1..(Len(rendered.lookups) - 1) :
          /\ rendered.lookups[k].outcome = "full mix"
          /\ rendered.lookups[k + 1].outcome = "stem"

\* The sum of the slot durations of the first k timeline items, in ms.
RECURSIVE SlotSum(_, _)
SlotSum(timeline, k) ==
    IF k = 0 THEN 0
    ELSE LET range == ParseTimeMs(timeline[k].time_ms)
         IN  SlotSum(timeline, k - 1) + Max(0, range.end - range.start)

\* C12. Sequencing: the first item of a timeline is appended to the empty
\* running output without crossfade and every later item with a 100 ms
\* crossfade, so the first item never fails for lack of preceding material
\* and the output after k items is (sum of the k slot durations) - 100*(k-1)
\* ms long.
C12_Sequencing ==
    (rendered # None /\ engine.kind = "AudioEngine"
        /\ Len(engine.recipe.timeline) >= 1) =>
        /\ ~(rendered.kind = "raise" /\ rendered.step = "append" /\ rendered.item = 1)
        /\ rendered.appended >= 1 =>
              rendered.final_len = SlotSum(engine.recipe.timeline, rendered.appended)
                                      - CrossfadeMs * (rendered.appended - 1)

----------------------------------------------------------------------------
(* Properties of the jobs. *)

Usable(reply) == Parsed(reply) /\ reply.value.kind = "recipe"

\* The revision service was unavailable or answered nothing usable: no
\* provider is configured, or no provider call gave a valid recipe.
ServiceDown(j) ==
    /\ ~Usable(threads[j].openai_reply)
    /\ ~Usable(threads[j].anthropic_reply)

\* C5. Revision error recovery: when the revision service is unavailable or
\* answers malformed output, the revision step hands back the submitted recipe
\* unmodified and raises nothing, so that the job goes on to render it.
C5_RevisionRecovery ==
    \A j \in DOMAIN threads :
        (threads[j].task = "revise" /\ "revision" \in Range(threads[j].ran)
           /\ ServiceDown(j)) =>
            /\ threads[j].recipe = threads[j].data.current_recipe
            /\ ~(threads[j].error # None /\ Last(threads[j].ran) = "revision")

Completed(j) ==
    /\ threads[j].pc = "done"
    /\ jobs[j].status = "complete"

\* C6 as stated. Revision versioning: the recipe a completed revise job
\* reports has the submitted version plus 1 and the submitted briefs.
C6_Original ==
    \A j \in DOMAIN threads :
        (threads[j].task = "revise" /\ Completed(j)) =>
            /\ jobs[j].result.recipe.version = threads[j].data.current_recipe.version + 1
            /\ jobs[j].result.recipe.briefs = threads[j].data.current_recipe.briefs

\* C6 as amended. The recipe a completed revise job reports is the first
\* parseable provider reply as it came, OpenAI before Anthropic, and when no
\* provider gave one it is the submitted recipe, version and briefs unchanged.
C6_RevisionVersioning ==
    \A j \in DOMAIN threads :
        (threads[j].task = "revise" /\ Completed(j)) =>
            LET reported == jobs[j].result.recipe
                submitted == threads[j].data.current_recipe
                o == threads[j].openai_reply
                a == threads[j].anthropic_reply
            IN  /\ Parsed(o) => reported = o.value
                /\ (~Parsed(o) /\ Parsed(a)) => reported = a.value
                /\ (~Parsed(o) /\ ~Parsed(a)) =>
                      /\ reported = submitted
                      /\ reported.version = submitted.version
                      /\ reported.briefs = submitted.briefs

\* A revise job completed on the submitted recipe after a provider call failed.
C6_Witness ==
    \E j \in DOMAIN threads :
        /\ threads[j].task = "revise"
        /\ Completed(j)
        /\ threads[j].openai_reply \in {ApiError, Garbage}
        /\ ~Parsed(threads[j].anthropic_reply)
        /\ jobs[j].result.recipe = threads[j].data.current_recipe

Terminal(j) == jobs[j].status \in {"complete", "failed"}

\* A job's status only moves pending -> processing -> complete or failed,
\* and a thread that raised calls no further stage.
LifecycleStep ==
    \A j \in DOMAIN jobs' :
        IF j \in DOMAIN jobs
        THEN /\ \/ jobs'[j].status = jobs[j].status
                \/ <<jobs[j].status, jobs'[j].status>> \in
                      {<<"pending", "processing">>, <<"processing", "complete">>,
                       <<"processing", "failed">>}
             /\ threads[j].error # None => threads'[j].ran = threads[j].ran
        ELSE jobs'[j].status = "pending"

Times(j, stage) == Cardinality({k \in 1..Len(threads[j].ran) : threads[j].ran[k] = stage})

\* A finished job is complete with its result, or failed with its error, and
\* failed whenever a stage raised; no stage ran twice.
LifecycleEnd ==
    \A j \in DOMAIN jobs :
        /\ threads[j].pc = "done" =>
              /\ Terminal(j)
              /\ jobs[j].status = "complete" =>
                    /\ threads[j].error = None
                    /\ jobs[j].error = None
                    /\ jobs[j].result # None
                    /\ jobs[j].result.mashup_id = MashupId(threads[j].output_filename)
                    /\ jobs[j].result.audio_url[2] = threads[j].output_filename
                    /\ jobs[j].result.recipe = threads[j].recipe
                    /\ threads[j].output_filename \in fs.mashups
              /\ jobs[j].status = "failed" =>
                    /\ threads[j].error # None
                    /\ jobs[j].error = Str(threads[j].error)
                    /\ jobs[j].result = None
        /\ jobs[j].status = "complete" => threads[j].error = None
        /\ Terminal(j) => threads[j].pc \notin {"start", "analyze", "analyzing", "build",
                              "building", "revise", "revising", "render", "rendering"}
        /\ Times(j, "build") <= 1
        /\ Times(j, "revision") <= 1
        /\ Times(j, "render") <= 1
        /\ Times(j, "analysis") <= Len(threads[j].songs)

\* C9. Job lifecycle: every job moves pending -> processing -> exactly one of
\* complete and failed and stays there; a failure in analysis, build,
\* revision or render ends it failed with an error message, a complete job
\* carries its result, no failed stage is retried, and every job ends.
C9_JobLifecycle ==
    /\ [][LifecycleStep]_vars
    /\ []LifecycleEnd
    /\ \A j \in 1..MaxJobs :
          (j \in DOMAIN jobs) ~> (j \in DOMAIN jobs /\ threads[j].pc = "done" /\ Terminal(j))

\* One job ended failed on a render that raised, with its error message.
C9_Witness ==
    \E j \in DOMAIN jobs :
        /\ threads[j].pc = "done"
        /\ jobs[j].status = "failed"
        /\ jobs[j].error = [kind |-> "str", value |-> "ValueError"]
        /\ Last(threads[j].ran) = "render"
        /\ threads[j].task = "create"

\* What a poll answered is a job entry (not the 404 body, not "no poll yet").
ObservedEntry == "status" \in DOMAIN polled

\* C13. Job-status map consistency under concurrency: no poll observes an
\* entry with status complete that lacks its result, nor an entry with status
\* failed that lacks its error.
C13_PollConsistency ==
    ObservedEntry =>
        /\ polled.status = "complete" => polled.result # None
        /\ polled.status = "failed" => polled.error # None

====
